---- MODULE Spec2Model ----
(***************************************************************************)
(* Red-black tree of package rbtree (Tree, Node, Insert, Delete, Search,   *)
(* insertFixup, deleteFixup, rotations, transplant).                       *)
(*                                                                         *)
(* The heap is a function from node addresses to Node records; the nil     *)
(* pointer is Nil.  Every operator that models a Go function takes the     *)
(* tree state T = [heap, root, size, rotLog, cases, panic] and returns the *)
(* state after the call.  A dereference of nil sets T.panic, as the Go     *)
(* runtime would panic there.                                              *)
(***************************************************************************)
EXTENDS Integers, Sequences, FiniteSets, TLC

\* ------------------------------------------------------------------ bounds
MaxKey == 8
MaxKeyV == 4
MaxVal == 2
MaxKeyH == 3
MaxOps == 5

Keys == 1..MaxKey
KeysV == 1..MaxKeyV
Values == 1..MaxVal
KeysH == 1..MaxKeyH

\* ------------------------------------------------------------ data model
Nil == 0
red == TRUE
black == FALSE

\* A fresh node takes the heap slot indexed by its key: a key is stored in at
\* most one node, so the slot is not in use by any node of the tree.
Addr == Keys
NewAddr(key) == key

\* Go's zero value of Node.
ZeroNode ==
  [Key |-> 0, Value |-> 0, Color |-> black, Parent |-> Nil, Left |-> Nil, Right |-> Nil]

\* New(): &Tree{}
New ==
  [heap |-> [a \in Addr |-> ZeroNode], root |-> Nil, size |-> 0,
   rotLog |-> <<>>, cases |-> <<>>, panic |-> FALSE]

Panic(T) == [T EXCEPT !.panic = TRUE]

\* The assignment n.f = v; n = nil is a nil dereference.
SetF(T, n, f, v) == IF n = Nil THEN Panic(T) ELSE [T EXCEPT !.heap[n][f] = v]

\* ---------------------------------------------------------------- helpers
colorOf(T, node) == IF node = Nil THEN black ELSE T.heap[node].Color

leftOf(T, node) == IF node = Nil THEN Nil ELSE T.heap[node].Left

rightOf(T, node) == IF node = Nil THEN Nil ELSE T.heap[node].Right

RECURSIVE minimum(_, _)
minimum(T, node) ==
  IF T.heap[node].Left # Nil THEN minimum(T, T.heap[node].Left) ELSE node

\* -------------------------------------------------------------- rotations
\* if n != nil { n.f = v }
SetIfNonNil(T, n, f, v) == IF n = Nil THEN T ELSE SetF(T, n, f, v)

\* The parent of node, or the tree when node has no parent, gets the child
\* new in the place of node; the left link is tested first.
replaceChild(T, node, new) ==
  IF T.heap[node].Parent = Nil THEN [T EXCEPT !.root = new]
  ELSE IF node = T.heap[T.heap[node].Parent].Left
  THEN SetF(T, T.heap[node].Parent, "Left", new)
  ELSE SetF(T, T.heap[node].Parent, "Right", new)

\* The same with the right link tested first, as rotateRight does.
replaceChildR(T, node, new) ==
  IF T.heap[node].Parent = Nil THEN [T EXCEPT !.root = new]
  ELSE IF node = T.heap[T.heap[node].Parent].Right
  THEN SetF(T, T.heap[node].Parent, "Right", new)
  ELSE SetF(T, T.heap[node].Parent, "Left", new)

logRotation(T, dir, node, up) ==
  IF T.panic THEN T
  ELSE [T EXCEPT !.rotLog = Append(@, [dir |-> dir, node |-> node, up |-> up])]

\* node.Right = right.Left; if right.Left != nil { right.Left.Parent = node }
rotateLeftInner(T, node, right) ==
  SetIfNonNil(SetF(T, node, "Right", T.heap[right].Left),
              T.heap[right].Left, "Parent", node)

\* right.Parent = node.Parent; the parent's link to node now points to right
rotateLeftOuter(T, node, right) ==
  replaceChild(SetF(T, right, "Parent", T.heap[node].Parent), node, right)

\* right.Left = node; node.Parent = right
rotateLeftJoin(T, node, right) ==
  SetF(SetF(T, right, "Left", node), node, "Parent", right)

rotateLeft(T, node) ==
  IF T.panic THEN T
  ELSE IF node = Nil THEN Panic(T)
  ELSE IF T.heap[node].Right = Nil THEN Panic(T)
  ELSE logRotation(
         rotateLeftJoin(
           rotateLeftOuter(
             rotateLeftInner(T, node, T.heap[node].Right),
             node, T.heap[node].Right),
           node, T.heap[node].Right),
         "L", node, T.heap[node].Right)

\* node.Left = left.Right; if left.Right != nil { left.Right.Parent = node }
rotateRightInner(T, node, left) ==
  SetIfNonNil(SetF(T, node, "Left", T.heap[left].Right),
              T.heap[left].Right, "Parent", node)

\* left.Parent = node.Parent; the parent's link to node now points to left
rotateRightOuter(T, node, left) ==
  replaceChildR(SetF(T, left, "Parent", T.heap[node].Parent), node, left)

\* left.Right = node; node.Parent = left
rotateRightJoin(T, node, left) ==
  SetF(SetF(T, left, "Right", node), node, "Parent", left)

rotateRight(T, node) ==
  IF T.panic THEN T
  ELSE IF node = Nil THEN Panic(T)
  ELSE IF T.heap[node].Left = Nil THEN Panic(T)
  ELSE logRotation(
         rotateRightJoin(
           rotateRightOuter(
             rotateRightInner(T, node, T.heap[node].Left),
             node, T.heap[node].Left),
           node, T.heap[node].Left),
         "R", node, T.heap[node].Left)

\* transplant without the update of v.Parent.
transplantNoParent(T, u, v) ==
  IF T.panic THEN T
  ELSE IF u = Nil THEN Panic(T)
  ELSE replaceChild(T, u, v)

\* transplant puts subtree v in the place of subtree u.
transplant(T, u, v) ==
  IF T.panic THEN T
  ELSE IF u = Nil THEN Panic(T)
  ELSE SetIfNonNil(replaceChild(T, u, v), v, "Parent", T.heap[u].Parent)

\* ----------------------------------------------------------------- Search
RECURSIVE SearchFrom(_, _, _)
SearchFrom(T, cur, key) ==
  IF cur = Nil THEN Nil
  ELSE IF key < T.heap[cur].Key THEN SearchFrom(T, T.heap[cur].Left, key)
  ELSE IF key > T.heap[cur].Key THEN SearchFrom(T, T.heap[cur].Right, key)
  ELSE cur

Search(T, key) == SearchFrom(T, T.root, key)

Size(T) == T.size

Log(T, c) == [T EXCEPT !.cases = Append(@, c)]

\* ----------------------------------------------------------------- Insert
\* The BST descent of Insert: the node holding key (found), or the last node
\* visited (parent) when key is absent.
RECURSIVE InsertDescend(_, _, _, _)
InsertDescend(T, cur, parent, key) ==
  IF cur = Nil THEN [found |-> Nil, parent |-> parent]
  ELSE IF key < T.heap[cur].Key THEN InsertDescend(T, T.heap[cur].Left, cur, key)
  ELSE IF key > T.heap[cur].Key THEN InsertDescend(T, T.heap[cur].Right, cur, key)
  ELSE [found |-> cur, parent |-> cur]

\* Case 3 of the left branch: node.Parent black, node.Parent.Parent red,
\* rotateRight(node.Parent.Parent).
insertCase3Left(T, node) ==
  IF T.panic THEN T
  ELSE LET p == T.heap[node].Parent IN
    IF p = Nil THEN Panic(T)
    ELSE LET T1 == SetF(T, p, "Color", black)
             g  == T1.heap[p].Parent
         IN IF g = Nil THEN Panic(T1)
            ELSE rotateRight(SetF(T1, g, "Color", red), g)

\* Its mirror in the right branch.
insertCase3Right(T, node) ==
  IF T.panic THEN T
  ELSE LET p == T.heap[node].Parent IN
    IF p = Nil THEN Panic(T)
    ELSE LET T1 == SetF(T, p, "Color", black)
             g  == T1.heap[p].Parent
         IN IF g = Nil THEN Panic(T1)
            ELSE rotateLeft(SetF(T1, g, "Color", red), g)

\* Case 1 of either branch: parent and uncle black, grandparent red.
insertCase1(T, node, uncle) ==
  LET p  == T.heap[node].Parent
      T1 == SetF(T, p, "Color", black)
      T2 == SetF(T1, uncle, "Color", black)
  IN SetF(T2, T2.heap[p].Parent, "Color", red)

\* The test that selects Case 2 in the left branch.
isInnerLeft(T, node) == node = T.heap[T.heap[T.heap[node].Parent].Parent].Right

\* The test that selects Case 2 in the right branch.
isInnerRight(T, node) == node = T.heap[T.heap[node].Parent].Left

\* The for loop of insertFixup.
RECURSIVE insertFixupLoop(_, _)
insertFixupLoop(T, node) ==
  IF T.panic THEN T
  ELSE IF node = Nil THEN Panic(T)
  ELSE IF ~(node # T.root /\ colorOf(T, T.heap[node].Parent) = red) THEN T
  ELSE LET p == T.heap[node].Parent
           g == T.heap[p].Parent
       IN IF g = Nil THEN Panic(T)
          ELSE IF p = T.heap[g].Left THEN
            LET uncle == T.heap[g].Right IN
            IF colorOf(T, uncle) = red
            THEN insertFixupLoop(Log(insertCase1(T, node, uncle), "case1"), g)
            ELSE IF isInnerLeft(T, node)
            THEN insertFixupLoop(
                   Log(insertCase3Left(Log(rotateLeft(T, p), "case2"), p), "case3"), p)
            ELSE insertFixupLoop(Log(insertCase3Left(T, node), "case3"), node)
          ELSE
            LET uncle == T.heap[g].Left IN
            IF colorOf(T, uncle) = red
            THEN insertFixupLoop(Log(insertCase1(T, node, uncle), "case1"), g)
            ELSE IF isInnerRight(T, node)
            THEN insertFixupLoop(
                   Log(insertCase3Right(Log(rotateRight(T, p), "case2"), p), "case3"), p)
            ELSE insertFixupLoop(Log(insertCase3Right(T, node), "case3"), node)

\* t.root.Color = black
blackenRoot(T) == IF T.panic THEN T ELSE SetF(T, T.root, "Color", black)

insertFixup(T, node) == blackenRoot(insertFixupLoop(T, node))

\* &Node{Key: key, Value: value, Color: red, Parent: parent}
newNode(key, value, parent) ==
  [Key |-> key, Value |-> value, Color |-> red,
   Parent |-> parent, Left |-> Nil, Right |-> Nil]

\* attach with the comparison of the keys the wrong way round.
attachSwapped(T, parent, node) ==
  IF parent = Nil THEN [T EXCEPT !.root = node]
  ELSE IF T.heap[node].Key > T.heap[parent].Key THEN SetF(T, parent, "Left", node)
  ELSE SetF(T, parent, "Right", node)

\* The new node becomes the root or a child of parent.
attach(T, parent, node) ==
  IF parent = Nil THEN [T EXCEPT !.root = node]
  ELSE IF T.heap[node].Key < T.heap[parent].Key THEN SetF(T, parent, "Left", node)
  ELSE SetF(T, parent, "Right", node)

\* Insert without t.size++.
countInsertForgotten(T) == T

\* t.size++
countInsert(T) == IF T.panic THEN T ELSE [T EXCEPT !.size = @ + 1]

\* The duplicate-key branch returning without the assignment.
overwriteIgnored(T, cur, value) == T

\* The duplicate-key branch counting the key a second time.
overwriteCounted(T, cur, value) == countInsert(SetF(T, cur, "Value", value))

\* The key is already stored in node cur: cur.Value = value; return.
overwrite(T, cur, value) == SetF(T, cur, "Value", value)

Insert(T, key, value) ==
  LET d == InsertDescend(T, T.root, Nil, key) IN
  IF d.found # Nil THEN overwrite(T, d.found, value)
  ELSE LET node == NewAddr(key)
           T1   == [T EXCEPT !.heap[node] = newNode(key, value, d.parent)]
           T2   == attach(T1, d.parent, node)
           T3   == insertFixup(T2, node)
       IN countInsert(T3)

\* ----------------------------------------------------------------- Delete
\* The loop state of deleteFixup.
LoopState(T, x, parent) == [T |-> T, x |-> x, parent |-> parent]

\* The sibling is red: sibling black, parent red, rotate the parent towards x.
deleteCase1Left(T, parent) ==
  IF colorOf(T, rightOf(T, parent)) = red
  THEN Log(rotateLeft(SetF(SetF(T, rightOf(T, parent), "Color", black),
                           parent, "Color", red), parent), "case1")
  ELSE T

deleteCase1Right(T, parent) ==
  IF colorOf(T, leftOf(T, parent)) = red
  THEN Log(rotateRight(SetF(SetF(T, leftOf(T, parent), "Color", black),
                            parent, "Color", red), parent), "case1")
  ELSE T

\* Both children of the sibling are black: sibling red, x = parent,
\* parent = x.Parent.
deleteCase2(T, sibling, parent) ==
  LoopState(Log(SetF(T, sibling, "Color", red), "case2"), parent, T.heap[parent].Parent)

\* The far child of the sibling is black: near child black, sibling red,
\* rotate the sibling away from x.
deleteCase3Left(T, sibling) ==
  IF colorOf(T, T.heap[sibling].Right) = black
  THEN Log(rotateRight(SetF(SetIfNonNil(T, T.heap[sibling].Left, "Color", black),
                            sibling, "Color", red), sibling), "case3")
  ELSE T

deleteCase3Right(T, sibling) ==
  IF colorOf(T, T.heap[sibling].Left) = black
  THEN Log(rotateLeft(SetF(SetIfNonNil(T, T.heap[sibling].Right, "Color", black),
                           sibling, "Color", red), sibling), "case3")
  ELSE T

\* sibling takes the parent's colour, parent and far child black, rotate the
\* parent towards x.
deleteCase4Recolor(T, sibling, parent, far) ==
  SetIfNonNil(SetF(SetF(T, sibling, "Color", colorOf(T, parent)), parent, "Color", black),
              far, "Color", black)

\* x = t.root; parent = nil
deleteCase4Done(T) == LoopState(Log(T, "case4"), T.root, Nil)

deleteCase4Left(T, parent) ==
  IF T.panic THEN LoopState(T, Nil, parent)
  ELSE IF rightOf(T, parent) = Nil THEN LoopState(Panic(T), Nil, parent)
  ELSE deleteCase4Done(
         rotateLeft(deleteCase4Recolor(T, rightOf(T, parent), parent,
                                       T.heap[rightOf(T, parent)].Right), parent))

deleteCase4Right(T, parent) ==
  IF T.panic THEN LoopState(T, Nil, parent)
  ELSE IF leftOf(T, parent) = Nil THEN LoopState(Panic(T), Nil, parent)
  ELSE deleteCase4Done(
         rotateRight(deleteCase4Recolor(T, leftOf(T, parent), parent,
                                        T.heap[leftOf(T, parent)].Left), parent))

\* The iteration once the sibling is known to be black; sibling is the right
\* child of parent.
deleteBlackSiblingLeft(T, sibling, parent) ==
  IF T.panic THEN LoopState(T, Nil, parent)
  ELSE IF sibling = Nil THEN LoopState(Panic(T), Nil, parent)
  ELSE IF /\ colorOf(T, T.heap[sibling].Left) = black
          /\ colorOf(T, T.heap[sibling].Right) = black
  THEN deleteCase2(T, sibling, parent)
  ELSE deleteCase4Left(deleteCase3Left(T, sibling), parent)

deleteBlackSiblingRight(T, sibling, parent) ==
  IF T.panic THEN LoopState(T, Nil, parent)
  ELSE IF sibling = Nil THEN LoopState(Panic(T), Nil, parent)
  ELSE IF /\ colorOf(T, T.heap[sibling].Left) = black
          /\ colorOf(T, T.heap[sibling].Right) = black
  THEN deleteCase2(T, sibling, parent)
  ELSE deleteCase4Right(deleteCase3Right(T, sibling), parent)

\* sibling = rightOf(parent), read after Case 1.
siblingLeft(T, parent) == deleteBlackSiblingLeft(T, rightOf(T, parent), parent)

siblingRight(T, parent) == deleteBlackSiblingRight(T, leftOf(T, parent), parent)

\* One iteration of the deleteFixup loop when x is the left child of parent.
deleteFixupLeft(T, x, parent) == siblingLeft(deleteCase1Left(T, parent), parent)

\* One iteration of the deleteFixup loop when x is the right child of parent.
deleteFixupRight(T, x, parent) == siblingRight(deleteCase1Right(T, parent), parent)

\* The for loop of deleteFixup; the result is the loop state on exit.
RECURSIVE deleteFixupLoop(_, _, _)
RECURSIVE deleteFixupNext(_)
deleteFixupLoop(T, x, parent) ==
  IF T.panic THEN LoopState(T, x, parent)
  ELSE IF ~(x # T.root /\ colorOf(T, x) = black) THEN LoopState(T, x, parent)
  ELSE IF x = leftOf(T, parent) THEN deleteFixupNext(deleteFixupLeft(T, x, parent))
  ELSE deleteFixupNext(deleteFixupRight(T, x, parent))

deleteFixupNext(s) == deleteFixupLoop(s.T, s.x, s.parent)

\* if x != nil { x.Color = black }
deleteFixupEnd(s) == IF s.T.panic THEN s.T ELSE SetIfNonNil(s.T, s.x, "Color", black)

deleteFixup(T, x, parent) == deleteFixupEnd(deleteFixupLoop(T, x, parent))

\* What the switch of Delete leaves: the tree, x, replacementParent,
\* originalColor, and the branch taken.
Spliced(T, x, parent, originalColor, kind) ==
  [T |-> T, x |-> x, parent |-> parent, originalColor |-> originalColor, kind |-> kind]

\* successor.Right = node.Right; successor.Right.Parent = successor
adoptRight(T, node, successor) ==
  SetF(SetF(T, successor, "Right", T.heap[node].Right),
       T.heap[node].Right, "Parent", successor)

\* successor.Left = node.Left; successor.Left.Parent = successor;
\* successor.Color = node.Color
adoptLeft(T, node, successor) ==
  SetF(SetF(SetF(T, successor, "Left", T.heap[node].Left),
            T.heap[node].Left, "Parent", successor),
       successor, "Color", T.heap[node].Color)

\* The successor is taken out of its place unless it is node's right child.
detachSuccessor(T, node, successor) ==
  IF T.heap[successor].Parent = node
  THEN SetIfNonNil(T, T.heap[successor].Right, "Parent", successor)
  ELSE adoptRight(transplant(T, successor, T.heap[successor].Right), node, successor)

\* The two-children case of Delete with the successor found.
spliceSuccessor(T, node, successor) ==
  Spliced(adoptLeft(transplant(detachSuccessor(T, node, successor), node, successor),
                    node, successor),
          T.heap[successor].Right,
          IF T.heap[successor].Parent = node THEN successor ELSE T.heap[successor].Parent,
          T.heap[successor].Color,
          IF T.heap[successor].Parent = node THEN "successorChild" ELSE "successorDeep")

\* The two-children case of Delete: the successor takes node's place.
deleteTwoChildren(T, node) == spliceSuccessor(T, node, minimum(T, T.heap[node].Right))

\* The switch of Delete: splice node out of the tree.
deleteSplice(T, node) ==
  IF T.heap[node].Left = Nil
  THEN Spliced(transplant(T, node, T.heap[node].Right), T.heap[node].Right,
               T.heap[node].Parent, T.heap[node].Color, "noLeft")
  ELSE IF T.heap[node].Right = Nil
  THEN Spliced(transplant(T, node, T.heap[node].Left), T.heap[node].Left,
               T.heap[node].Parent, T.heap[node].Color, "noRight")
  ELSE deleteTwoChildren(T, node)

\* Delete never running deleteFixup.
needsFixupNever(originalColor) == FALSE

\* Delete running deleteFixup whatever the colour of the node taken out.
needsFixupAlways(originalColor) == TRUE

\* Whether Delete runs deleteFixup after the splice.
needsFixup(originalColor) == originalColor = black

\* Delete without t.size--.
countDeleteForgotten(T) == T

\* Delete counting before it looks the key up.
deleteAbsentCounted(T) ==
  [T |-> [T EXCEPT !.size = @ - 1], ret |-> FALSE, removed |-> Nil, kind |-> "absent"]

\* The key is not stored: return false.
deleteAbsent(T) == [T |-> T, ret |-> FALSE, removed |-> Nil, kind |-> "absent"]

\* t.size--
countDelete(T) == IF T.panic THEN T ELSE [T EXCEPT !.size = @ - 1]

\* Delete after the switch: deleteFixup when the colour recorded is black,
\* t.size--, return true.
deleteFinish(s, node) ==
  [T |-> countDelete(IF needsFixup(s.originalColor)
                     THEN deleteFixup(s.T, s.x, s.parent) ELSE s.T),
   ret |-> TRUE, removed |-> node, kind |-> s.kind]

\* Delete with the node Search found.
deleteNode(T, node) ==
  IF node = Nil THEN deleteAbsent(T) ELSE deleteFinish(deleteSplice(T, node), node)

\* Delete: the tree after the call, the value returned, and the node that
\* was taken out of the tree (Nil when none was); kind names the branch of
\* the switch that was taken.
Delete(T, key) == deleteNode(T, Search(T, key))

\* ---------------------------------------------------------------- InOrder
\* The (key, value) pairs fn is called with, in the order of the calls.
RECURSIVE inOrder(_, _)
inOrder(T, node) ==
  IF node = Nil THEN <<>>
  ELSE inOrder(T, T.heap[node].Left)
         \o <<[key |-> T.heap[node].Key, value |-> T.heap[node].Value]>>
         \o inOrder(T, T.heap[node].Right)

InOrder(T) == inOrder(T, T.root)

\* ------------------------------------------------------------------ state
VARIABLES
  heap,      \* the nodes: address -> Node
  root,      \* Tree.root
  size,      \* Tree.size
  op,        \* the last call: [name, key, val]
  found,     \* the node the last call located (Search's result), or Nil
  ok,        \* the value the last Delete returned
  removed,   \* the node the last Delete took out of the tree, or Nil
  kind,      \* the branch of Delete's switch the last Delete took
  rotLog,    \* the rotations the last call made, in order
  cases,     \* the fixup cases the last call went through, in order
  panicked,  \* a nil pointer was dereferenced
  ever,      \* history: the keys ever passed to Insert
  nNew,      \* history: the Insert calls that created a node
  nDel,      \* history: the Delete calls that returned true
  kv         \* history: key -> the value of its last Insert, 0 once deleted

prog == <<heap, root, size>>
obs  == <<op, found, ok, removed, kind, rotLog, cases, panicked>>
hist == <<ever, nNew, nDel>>
vars == <<heap, root, size, op, found, ok, removed, kind, rotLog, cases, panicked,
          ever, nNew, nDel, kv>>

\* The tree the variables hold, at the start of a call.
Cur ==
  [heap |-> heap, root |-> root, size |-> size,
   rotLog |-> <<>>, cases |-> <<>>, panic |-> FALSE]

NoOp == [name |-> "New", key |-> 0, val |-> 0]

Init ==
  /\ heap = New.heap /\ root = New.root /\ size = New.size
  /\ op = NoOp /\ found = Nil /\ ok = FALSE /\ removed = Nil /\ kind = "none"
  /\ rotLog = <<>> /\ cases = <<>> /\ panicked = FALSE
  /\ ever = {} /\ nNew = 0 /\ nDel = 0 /\ kv = [k \in Keys |-> 0]

\* The heap once the collector has reclaimed node n: Delete drops its only
\* reference to the node it took out of the tree when it returns.
Reclaim(h, n) == IF n = Nil THEN h ELSE [h EXCEPT ![n] = ZeroNode]

\* The effect of a call that leaves the tree T and the unreferenced node n.
Store(T, n) ==
  /\ heap' = Reclaim(T.heap, n) /\ root' = T.root /\ size' = T.size
  /\ rotLog' = T.rotLog /\ cases' = T.cases /\ panicked' = T.panic

\* The effect of a Delete call with result d.
StoreDelete(d) ==
  /\ Store(d.T, d.removed)
  /\ ok' = d.ret
  /\ removed' = d.removed
  /\ kind' = d.kind

InsertStep(k, v) ==
  /\ ~panicked
  /\ Store(Insert(Cur, k, v), Nil)
  /\ op' = [name |-> "Insert", key |-> k, val |-> v]
  /\ found' = Search(Cur, k)
  /\ ok' = FALSE /\ removed' = Nil /\ kind' = "none"
  /\ kv' = [kv EXCEPT ![k] = v]

DeleteStep(k) ==
  /\ ~panicked
  /\ StoreDelete(Delete(Cur, k))
  /\ kv' = [kv EXCEPT ![k] = 0]
  /\ op' = [name |-> "Delete", key |-> k, val |-> 0]
  /\ found' = Search(Cur, k)

SearchStep(k) ==
  /\ ~panicked
  /\ found' = Search(Cur, k)
  /\ op' = [name |-> "Search", key |-> k, val |-> 0]
  /\ ok' = FALSE /\ removed' = Nil /\ kind' = "none"
  /\ rotLog' = <<>> /\ cases' = <<>>
  /\ UNCHANGED <<prog, panicked, kv>>

\* Every key is stored with itself as its value, as the tests do.
InsertOp == \E k \in Keys : InsertStep(k, k) /\ UNCHANGED hist

DeleteOp == \E k \in Keys : DeleteStep(k) /\ UNCHANGED hist

SearchOp == \E k \in Keys : SearchStep(k) /\ UNCHANGED hist

Next == InsertOp \/ DeleteOp \/ SearchOp

Spec == Init /\ [][Next]_vars

\* The same calls with any value stored under a key, on fewer keys.
InsertV == \E k \in KeysV, v \in Values : InsertStep(k, v) /\ UNCHANGED hist

DeleteV == \E k \in KeysV : DeleteStep(k) /\ UNCHANGED hist

SearchV == \E k \in KeysV : SearchStep(k) /\ UNCHANGED hist

NextV == InsertV \/ DeleteV \/ SearchV

SpecV == Init /\ [][NextV]_vars

\* The same calls with the history of the calls recorded, on fewer keys.
InsertH ==
  \E k \in KeysH :
    /\ nNew < MaxOps
    /\ InsertStep(k, k)
    /\ ever' = ever \cup {k}
    /\ nNew' = IF Search(Cur, k) = Nil THEN nNew + 1 ELSE nNew
    /\ nDel' = nDel

DeleteH ==
  \E k \in KeysH :
    /\ DeleteStep(k)
    /\ nDel' = IF ok' THEN nDel + 1 ELSE nDel
    /\ UNCHANGED <<ever, nNew>>

NextH == InsertH \/ DeleteH

SpecH == Init /\ [][NextH]_vars

\* ----------------------------------------------------------- properties
Children(n) == {heap[n].Left, heap[n].Right} \ {Nil}

RECURSIVE Closure(_)
Closure(S) ==
  LET S2 == S \cup UNION {Children(n) : n \in S}
  IN IF S2 = S THEN S ELSE Closure(S2)

\* The nodes reachable from the root over child links.
Nodes == IF root = Nil THEN {} ELSE Closure({root})

\* The nodes of the subtree of n, to a depth no path of the tree exceeds.
RECURSIVE Subtree(_, _)
Subtree(n, fuel) ==
  IF n = Nil \/ fuel = 0 THEN {}
  ELSE {n} \cup Subtree(heap[n].Left, fuel - 1) \cup Subtree(heap[n].Right, fuel - 1)

Fuel == Cardinality(Addr) + 1

\* The numbers of black nodes on the paths from n down to a missing child.
RECURSIVE BlackCounts(_, _)
BlackCounts(n, fuel) ==
  IF n = Nil THEN {0}
  ELSE IF fuel = 0 THEN {-1}
  ELSE LET b == IF heap[n].Color = black THEN 1 ELSE 0
       IN {c + b : c \in BlackCounts(heap[n].Left, fuel - 1)
                          \cup BlackCounts(heap[n].Right, fuel - 1)}

RootIsBlack == colorOf(Cur, root) = black

NoRedRed ==
  \A n \in Nodes :
    heap[n].Color = red =>
      colorOf(Cur, heap[n].Left) = black /\ colorOf(Cur, heap[n].Right) = black

UniformBlackHeight == Cardinality(BlackCounts(root, Fuel)) = 1

\* C1: after every completed Insert or Delete the root is black, no red node
\* has a red child, and every path from the root to a missing child passes
\* through the same number of black nodes.
C1_RedBlackRules ==
  ~panicked => RootIsBlack /\ NoRedRed /\ UniformBlackHeight

\* A Delete that ran deleteFixup through two or more cases has completed.
C1_Witness ==
  /\ op.name = "Delete" /\ ok /\ ~panicked
  /\ Len(cases) >= 2 /\ size >= 4
  /\ \E n \in Nodes : heap[n].Color = red

InOrderKeys == [i \in 1..Len(InOrder(Cur)) |-> InOrder(Cur)[i].key]

\* C2: InOrder visits the keys in strictly increasing order; for every node
\* the keys of its left subtree are smaller and those of its right subtree
\* are larger.
C2_InOrderIncreasing ==
  ~panicked =>
    /\ \A i \in 1..(Len(InOrderKeys) - 1) : InOrderKeys[i] < InOrderKeys[i + 1]
    /\ \A n \in Nodes :
         /\ \A m \in Subtree(heap[n].Left, Fuel) : heap[m].Key < heap[n].Key
         /\ \A m \in Subtree(heap[n].Right, Fuel) : heap[m].Key > heap[n].Key

\* Keys inserted out of order, some deleted, and at least five remain.
C2_Witness ==
  /\ op.name = "Delete" /\ ok /\ rotLog # <<>>
  /\ Len(InOrderKeys) >= 5
  /\ heap[root].Left # Nil /\ heap[root].Right # Nil

C4_Original == size = Cardinality(ever) - nDel

\* C4, amended: Size() is the number of Insert calls that created a node (the
\* key was not stored when the call was made) minus the number of Delete
\* calls that returned true.
C4_SizeCounts == ~panicked => Size(Cur) = nNew - nDel

\* A key was inserted again after its deletion.
C4_Witness == nNew > Cardinality(ever) /\ nDel > 0 /\ size > 0

\* C5: Size() is the number of nodes reachable from the root, which is the
\* number of keys InOrder visits, and it is 0 exactly when the root is nil.
C5_SizeIsNodeCount ==
  ~panicked =>
    /\ Size(Cur) = Cardinality(Nodes)
    /\ Size(Cur) = Len(InOrder(Cur))
    /\ (Size(Cur) = 0) <=> (root = Nil)

\* Delete took a node with two children out of the tree and three or more
\* keys remain.
C5_Witness ==
  /\ op.name = "Delete" /\ ok /\ size >= 3
  /\ kind \in {"successorChild", "successorDeep"}

\* C6: Delete(k) of a key that is not stored returns false and leaves the
\* root, every node and the size as they were.
C6_DeleteAbsent ==
  [][(op'.name = "Delete" /\ Search(Cur, op'.key) = Nil)
       => (ok' = FALSE /\ removed' = Nil /\ ~panicked'
           /\ heap' = heap /\ root' = root /\ size' = size)]_vars

\* Delete of an absent key was called on a tree of three or more keys.
C6_Witness ==
  /\ op.name = "Delete" /\ found = Nil /\ ~ok /\ size >= 3
  /\ Search(Cur, op.key) = Nil

C8_NoPanic == ~panicked

\* deleteFixup met a red sibling, rotated, then rotated at the new sibling
\* and at the parent, reading the sibling each time.
C8_Witness ==
  /\ op.name = "Delete" /\ ok /\ ~panicked
  /\ cases = <<"case1", "case3", "case4">> /\ Len(rotLog) = 3

\* C9: in insertFixup the black-uncle case ends the loop: Case 3 is the last
\* case the loop goes through, a rotation at the parent (Case 2) is followed
\* by exactly one rotation at the grandparent, and no Insert call makes more
\* than two rotations.
C9_InsertTerminal ==
  op.name = "Insert" =>
    /\ Len(rotLog) <= 2
    /\ \A i \in 1..Len(cases) : cases[i] = "case3" => i = Len(cases)
    /\ Len(rotLog) = 2 => /\ cases[Len(cases) - 1] = "case2"
                          /\ rotLog[1].up = rotLog[2].up
                          /\ rotLog[1].dir # rotLog[2].dir

\* C10: the root has no parent, every child of a reachable node points back
\* to it, no node is the child of two nodes or both children of one, and the
\* node Delete removed is neither reachable nor the target of a link of a
\* reachable node.
C10_WellFormedLinks ==
  ~panicked =>
    /\ root # Nil => heap[root].Parent = Nil
    /\ \A n \in Nodes : \A c \in Children(n) : heap[c].Parent = n
    /\ \A n \in Nodes : heap[n].Left # Nil => heap[n].Left # heap[n].Right
    /\ \A n, m \in Nodes : n # m => Children(n) \cap Children(m) = {}
    /\ \A n \in Nodes : root \notin Children(n)
    /\ removed # Nil =>
         /\ removed \notin Nodes
         /\ \A n \in Nodes :
              removed \notin {heap[n].Parent, heap[n].Left, heap[n].Right}

\* Delete removed a node with two children whose successor lay deeper than
\* its right child.
C10_Witness ==
  /\ op.name = "Delete" /\ ok /\ kind = "successorDeep"
  /\ removed # Nil /\ size >= 4

====
